---- MODULE Spec2Model ----
(***************************************************************************)
(* Model of src/src/App.jsx: the shared dream text held by DreamProvider   *)
(* and one PersonaInterpreter per persona, each with its own               *)
(* interpretation / isLoading / error state and its own requests to the    *)
(* text-generation endpoint.                                               *)
(*                                                                         *)
(* A JavaScript string is a sequence of tokens.  A token is one character  *)
(* of user input or one literal chunk of the source (a message, a template *)
(* fragment); concatenation is \o and the empty string is << >>.           *)
(***************************************************************************)
EXTENDS Integers, Sequences, FiniteSets, TLC

\* ------------------------------------------------------------------ bounds
NumSlots == 2        \* how many of the personas of App are mounted
MaxCandidates == 2   \* longest candidates array in a payload

\* -------------------------------------------------------------- the strings
Whitespace == {" ", "\n", "\t"}

RECURSIVE SeqsUpTo(_, _)
SeqsUpTo(S, n) ==
  IF n = 0 THEN {<< >>}
  ELSE LET shorter == SeqsUpTo(S, n - 1)
       IN  shorter \cup {Append(q, c) : q \in shorter, c \in S}

\* the values the textarea hands to handleInputChange: '', ' ', 'a' and
\* ' a\n' (text with whitespace around it)
Inputs == { << >>, <<" ">>, <<"a">>, <<" ", "a", "\n">> }

RECURSIVE trimStart(_)
trimStart(str) ==
  IF str = << >> THEN << >>
  ELSE IF Head(str) \in Whitespace THEN trimStart(Tail(str))
  ELSE str

RECURSIVE trimEnd(_)
trimEnd(str) ==
  IF str = << >> THEN << >>
  ELSE IF str[Len(str)] \in Whitespace THEN trimEnd(SubSeq(str, 1, Len(str) - 1))
  ELSE str

\* String.prototype.trim
trim(str) == trimEnd(trimStart(str))

\* JavaScript truthiness of a string: only '' is falsy
Truthy(str) == str # << >>

DigitOf == <<"0", "1", "2", "3", "4", "5", "6", "7", "8", "9">>

\* Number -> decimal string, as a template literal renders response.status
RECURSIVE NumberToString(_)
NumberToString(n) ==
  IF n < 10 THEN <<DigitOf[n + 1]>>
  ELSE NumberToString(n \div 10) \o <<DigitOf[(n % 10) + 1]>>

\* ------------------------------------------------------------- the personas
\* Object.entries(personas) order; each prompt is abbreviated to its opening
\* sentence, kept as one token.
PersonaNames ==
  << "Aleister Crowley", "Dr. Carl", "Dr. Sigmund Freud", "Gawura",
     "Pawang-Senoi", "Singer of Dreams", "Tau the Monk", "Razia the Mage" >>

personas ==
  [ n \in {PersonaNames[i] : i \in 1..Len(PersonaNames)} |->
      CASE n = "Aleister Crowley"  -> <<"You are the controversial occultist Aleister Crowley. ...">>
        [] n = "Dr. Carl"          -> <<"You are Dr. Carl, a renowned dream interpreter. ...">>
        [] n = "Dr. Sigmund Freud" -> <<"You are Dr. Sigmund, a renowned dream interpreter. ...">>
        [] n = "Gawura"            -> <<"You are Gawura, an Aboriginal healer and wise man. ...">>
        [] n = "Pawang-Senoi"      -> <<"You are Pawang, the Senoi Healer and Shaman. ...">>
        [] n = "Singer of Dreams"  -> <<"You are Song of Dreams, the Dream Interpreter. ...">>
        [] n = "Tau the Monk"      -> <<"You are Tau, an enlightened Tibetan practitioner of the mystic arts. ...">>
        [] n = "Razia the Mage"    -> <<"You are Razia, a mage deeply steeped in Sufi philosophy and mysticism. ...">> ]

\* the PersonaInterpreter instances rendered by App
Slots == {PersonaNames[i] : i \in 1..NumSlots}

\* ------------------------------------------------------------- the messages
PleaseEnter == <<"Please enter a dream to interpret.">>
SafetyMessage == <<"The response was blocked for safety reasons. Please try rephrasing your dream description.">>
InvalidMessage == <<"The AI returned an invalid or empty response.">>
UnknownMessage == <<"An unknown error occurred.">>
StatusPrefix == <<"API request failed with status ">>

\* error is null or a string: << >> is null, <<m>> is the string m
Null == << >>
Some(m) == <<m>>

\* ------------------------------------------------------------------- state
VARIABLES
  masterDreamText,   \* DreamProvider's state
  slotDreamText,     \* per slot: the masterDreamText its last render read from the context
  interpretation,    \* per slot: useState('')
  isLoading,         \* per slot: useState(false)
  error,             \* per slot: useState(null)
  inflight,          \* per slot: prompts of the requests issued and not yet settled
  mounted            \* per slot: the component is in the tree

vars == <<masterDreamText, slotDreamText, interpretation, isLoading, error, inflight, mounted>>

Init ==
  /\ masterDreamText = << >>
  /\ slotDreamText = [s \in Slots |-> << >>]
  /\ interpretation = [s \in Slots |-> << >>]
  /\ isLoading = [s \in Slots |-> FALSE]
  /\ error = [s \in Slots |-> Null]
  /\ inflight = [s \in Slots |-> << >>]
  /\ mounted = [s \in Slots |-> TRUE]

\* ------------------------------------------------------ handleInputChange
\* handleInputChange on a dream text each slot keeps for itself: only the slot
\* typed in sees the value
handleInputChange_ownSlotOnly(s, v) ==
  /\ mounted[s]
  /\ masterDreamText' = v
  /\ slotDreamText' = [slotDreamText EXCEPT ![s] = v]
  /\ UNCHANGED <<interpretation, isLoading, error, inflight, mounted>>

\* handleInputChange that stores the value trimmed
handleInputChange_trimmed(s, v) ==
  /\ mounted[s]
  /\ masterDreamText' = trim(v)
  /\ slotDreamText' = [t \in Slots |-> IF mounted[t] THEN trim(v) ELSE slotDreamText[t]]
  /\ UNCHANGED <<interpretation, isLoading, error, inflight, mounted>>

\* handleInputChange that also takes the typed-in slot out of loading
handleInputChange_cancelsLoading(s, v) ==
  /\ mounted[s]
  /\ masterDreamText' = v
  /\ slotDreamText' = [t \in Slots |-> IF mounted[t] THEN v ELSE slotDreamText[t]]
  /\ isLoading' = [isLoading EXCEPT ![s] = FALSE]
  /\ UNCHANGED <<interpretation, error, inflight, mounted>>

\* handleInputChange that also clears the error of the typed-in slot
handleInputChange_clearsError(s, v) ==
  /\ mounted[s]
  /\ masterDreamText' = v
  /\ slotDreamText' = [t \in Slots |-> IF mounted[t] THEN v ELSE slotDreamText[t]]
  /\ error' = [error EXCEPT ![s] = Null]
  /\ UNCHANGED <<interpretation, isLoading, inflight, mounted>>

\* The textarea of slot s reports value v: setMasterDreamText re-renders the
\* provider and with it every mounted consumer of the context.
handleInputChange(s, v) ==
  /\ mounted[s]
  /\ masterDreamText' = v
  /\ slotDreamText' = [t \in Slots |-> IF mounted[t] THEN v ELSE slotDreamText[t]]
  /\ UNCHANGED <<interpretation, isLoading, error, inflight, mounted>>

\* ------------------------------------------------------- getInterpretation
\* fullPrompt built from the trimmed dream text
fullPrompt_trimmed(s) ==
  personas[s] \o <<"\n\n---\n\nDREAM: \"">> \o trim(slotDreamText[s]) \o <<"\"">>

fullPrompt(s) ==
  personas[s] \o <<"\n\n---\n\nDREAM: \"">> \o slotDreamText[s] \o <<"\"">>

\* getInterpretationStart with the blank check made on the untrimmed text
getInterpretationStart_untrimmedCheck(s) ==
  IF ~Truthy(slotDreamText[s])
  THEN [ interpretation |-> interpretation[s],
         isLoading      |-> isLoading[s],
         error          |-> Some(PleaseEnter),
         inflight       |-> inflight[s] ]
  ELSE [ interpretation |-> << >>,
         isLoading      |-> TRUE,
         error          |-> Null,
         inflight       |-> Append(inflight[s], fullPrompt(s)) ]

\* getInterpretationStart without setError(null)
getInterpretationStart_keepsError(s) ==
  IF ~Truthy(trim(slotDreamText[s]))
  THEN [ interpretation |-> interpretation[s],
         isLoading      |-> isLoading[s],
         error          |-> Some(PleaseEnter),
         inflight       |-> inflight[s] ]
  ELSE [ interpretation |-> << >>,
         isLoading      |-> TRUE,
         error          |-> error[s],
         inflight       |-> Append(inflight[s], fullPrompt(s)) ]

\* getInterpretationStart whose blank-input branch also clears the text
getInterpretationStart_rejectClearsText(s) ==
  IF ~Truthy(trim(slotDreamText[s]))
  THEN [ interpretation |-> << >>,
         isLoading      |-> isLoading[s],
         error          |-> Some(PleaseEnter),
         inflight       |-> inflight[s] ]
  ELSE [ interpretation |-> << >>,
         isLoading      |-> TRUE,
         error          |-> Null,
         inflight       |-> Append(inflight[s], fullPrompt(s)) ]

\* The part of getInterpretation that runs before the first await, as the
\* values it leaves in slot s.
getInterpretationStart(s) ==
  IF ~Truthy(trim(slotDreamText[s]))
  THEN [ interpretation |-> interpretation[s],
         isLoading      |-> isLoading[s],
         error          |-> Some(PleaseEnter),
         inflight       |-> inflight[s] ]
  ELSE [ interpretation |-> << >>,
         isLoading      |-> TRUE,
         error          |-> Null,
         inflight       |-> Append(inflight[s], fullPrompt(s)) ]

getInterpretation(s) ==
  LET r == getInterpretationStart(s)
  IN  /\ interpretation' = [interpretation EXCEPT ![s] = r.interpretation]
      /\ isLoading' = [isLoading EXCEPT ![s] = r.isLoading]
      /\ error' = [error EXCEPT ![s] = r.error]
      /\ inflight' = [inflight EXCEPT ![s] = r.inflight]
      /\ UNCHANGED <<masterDreamText, slotDreamText, mounted>>

\* the button without the disabled attribute
buttonClick_neverDisabled(s) ==
  /\ mounted[s]
  /\ getInterpretation(s)

\* The button of slot s: disabled={isLoading}, onClick={getInterpretation}.
\* A disabled button dispatches no click.
buttonClick(s) ==
  /\ mounted[s]
  /\ ~isLoading[s]
  /\ getInterpretation(s)

\* ------------------------------------------------- what the endpoint returns
\* An optional property or a nullable value is << >> (undefined / null) or
\* <<x>> (the value x).
Undefined == << >>

Texts == { <<" ", "x", "\n">> }

\* parts arrays: [], [{text: ''}], [{text: T}]
PartsArrays == { << >>, << [text |-> << >>] >> } \cup { << [text |-> t] >> : t \in Texts }

\* content objects: {} and {parts: ...}
Contents == { [parts |-> Undefined] } \cup { [parts |-> <<pa>>] : pa \in PartsArrays }

FinishReasons == {"STOP", "SAFETY"}

\* candidate objects: content and finishReason each present or not
Candidates ==
  [ content      : {Undefined} \cup { <<ct>> : ct \in Contents },
    finishReason : {Undefined} \cup { <<f>> : f \in FinishReasons } ]

\* the candidates that fill the longer arrays: with a text or without
\* content, finished by STOP or by SAFETY
CommonCandidates ==
  [ content      : {Undefined} \cup { <<[parts |-> << <<[text |-> t]>> >>]>> : t \in Texts },
    finishReason : { <<f>> : f \in FinishReasons } ]

\* candidates arrays: every candidate alone, the common ones in every
\* arrangement up to MaxCandidates
CandidateArrays ==
  { <<c>> : c \in Candidates } \cup SeqsUpTo(CommonCandidates, MaxCandidates)

\* what response.json() resolves to: null, {} or {candidates: [...]}
Results ==
  {Undefined} \cup { <<[candidates |-> Undefined]>> }
              \cup { <<[candidates |-> <<ca>>]>> : ca \in CandidateArrays }

\* status and statusText of the responses fetch resolves to
Responses ==
  { [status |-> 200, statusText |-> <<"OK">>],
    [status |-> 404, statusText |-> <<"Not Found">>],
    [status |-> 500, statusText |-> <<"Internal Server Error">>] }

\* Response.ok
ok(response) == response.status >= 200 /\ response.status <= 299

\* messages of the errors fetch rejects with; << >> is an error without message
FetchErrorMessages == { <<"Failed to fetch">>, << >> }

\* message of the SyntaxError response.json() rejects with
JsonErrorMessage == <<"Unexpected token < in JSON at position 0">>

\* messages of the TypeErrors thrown by reading a property of null or of
\* undefined (the wording is V8's)
TypeErrorOfNull == <<"Cannot read properties of null (reading 'candidates')">>
TypeErrorOfUndefined == <<"Cannot read properties of undefined (reading 'finishReason')">>

\* what the try block ends with: a text for setInterpretation or a thrown
\* Error with a message
Return(text) == [throws |-> FALSE, str |-> text]
Throw(message) == [throws |-> TRUE, str |-> message]

\* candidate.content?.parts?.[0]?.text ; undefined is given as '' (both falsy)
firstPartText(candidate) ==
  IF candidate.content = Undefined THEN << >>
  ELSE LET parts == candidate.content[1].parts
       IN  IF parts = Undefined THEN << >>
           ELSE IF Len(parts[1]) = 0 THEN << >>
           ELSE parts[1][1].text

\* lines 84-92 on the parsed result
classify(result) ==
  IF result = Undefined THEN Throw(TypeErrorOfNull)
  ELSE
    LET candidates == result[1].candidates
    IN  IF /\ candidates # Undefined
           /\ Len(candidates[1]) > 0
           /\ Truthy(firstPartText(candidates[1][1]))
        THEN Return(firstPartText(candidates[1][1]))
        ELSE IF candidates # Undefined
             THEN IF Len(candidates[1]) = 0
                  THEN Throw(TypeErrorOfUndefined)
                  ELSE IF candidates[1][1].finishReason = <<"SAFETY">>
                       THEN Throw(SafetyMessage)
                       ELSE Throw(InvalidMessage)
             ELSE Throw(InvalidMessage)

\* ------------------------------------- getInterpretation after the awaits
RemoveAt(q, i) == SubSeq(q, 1, i - 1) \o SubSeq(q, i + 1, Len(q))

\* settleSlot with setIsLoading(false) on the success path only
settleSlot_noFinally(s, o) ==
  [ interpretation |-> IF o.throws THEN interpretation[s] ELSE o.str,
    error          |-> IF o.throws
                       THEN Some(IF Truthy(o.str) THEN o.str ELSE UnknownMessage)
                       ELSE error[s],
    isLoading      |-> IF o.throws THEN isLoading[s] ELSE FALSE ]

\* catch and finally, as the values they leave in slot s when its request
\* ends with outcome o
settleSlot(s, o) ==
  [ interpretation |-> IF o.throws THEN interpretation[s] ELSE o.str,
    error          |-> IF o.throws
                       THEN Some(IF Truthy(o.str) THEN o.str ELSE UnknownMessage)
                       ELSE error[s],
    isLoading      |-> FALSE ]

\* settle with a loading flag shared by the slots
settle_sharedLoading(s, i, o) ==
  LET r == settleSlot(s, o)
  IN  /\ i \in 1..Len(inflight[s])
      /\ interpretation' = [interpretation EXCEPT ![s] = r.interpretation]
      /\ error' = [error EXCEPT ![s] = r.error]
      /\ isLoading' = [t \in Slots |-> r.isLoading]
      /\ inflight' = [inflight EXCEPT ![s] = RemoveAt(@, i)]
      /\ UNCHANGED <<masterDreamText, slotDreamText, mounted>>

\* settle that issues the request again when it ended with an error
settle_retriesOnError(s, i, o) ==
  LET r == settleSlot(s, o)
  IN  /\ i \in 1..Len(inflight[s])
      /\ interpretation' = [interpretation EXCEPT ![s] = r.interpretation]
      /\ error' = [error EXCEPT ![s] = r.error]
      /\ isLoading' = [isLoading EXCEPT ![s] = r.isLoading]
      /\ inflight' = [inflight EXCEPT ![s] = IF o.throws THEN @ ELSE RemoveAt(@, i)]
      /\ UNCHANGED <<masterDreamText, slotDreamText, mounted>>

\* line 94: what the catch hands to console.error (null: nothing is logged)
consoleError(o) == IF o.throws THEN Some(o.str) ELSE Null

\* request i of slot s ends with outcome o; the setters are called whether
\* or not the component is still mounted, and React drops the updates of a
\* component that is not
settle(s, i, o) ==
  LET r == IF mounted[s] THEN settleSlot(s, o)
           ELSE [interpretation |-> interpretation[s], error |-> error[s],
                 isLoading |-> isLoading[s]]
  IN  /\ i \in 1..Len(inflight[s])
      /\ interpretation' = [interpretation EXCEPT ![s] = r.interpretation]
      /\ error' = [error EXCEPT ![s] = r.error]
      /\ isLoading' = [isLoading EXCEPT ![s] = r.isLoading]
      /\ inflight' = [inflight EXCEPT ![s] = RemoveAt(@, i)]
      /\ UNCHANGED <<masterDreamText, slotDreamText, mounted>>

\* fetch rejects (no response at all)
fetchRejected(s, message) ==
  \E i \in 1..Len(inflight[s]) : settle(s, i, Throw(message))

\* statusMessage without the status text
statusMessage_codeOnly(response) ==
  StatusPrefix \o NumberToString(response.status) \o <<": ">>

statusMessage(response) ==
  StatusPrefix \o NumberToString(response.status) \o <<": ">> \o response.statusText

\* line 80: the response is not ok
responseNotOk(s, response) ==
  /\ ~ok(response)
  /\ \E i \in 1..Len(inflight[s]) : settle(s, i, Throw(statusMessage(response)))

\* line 82: the body is not JSON
jsonRejected(s, response) ==
  /\ ok(response)
  /\ \E i \in 1..Len(inflight[s]) : settle(s, i, Throw(JsonErrorMessage))

\* lines 84-92: the body parsed to result
resultReceived(s, response, result) ==
  /\ ok(response)
  /\ \E i \in 1..Len(inflight[s]) : settle(s, i, classify(result))

\* ----------------------------------------------------------- specification
Next ==
  \/ \E s \in Slots, v \in Inputs : handleInputChange(s, v)
  \/ \E s \in Slots : buttonClick(s)
  \/ \E s \in Slots, m \in FetchErrorMessages : fetchRejected(s, m)
  \/ \E s \in Slots, r \in Responses : responseNotOk(s, r)
  \/ \E s \in Slots, r \in Responses : jsonRejected(s, r)
  \/ \E s \in Slots, r \in Responses, res \in Results : resultReceived(s, r, res)

Spec == Init /\ [][Next]_vars

\* the request of slot s ends, in any of the ways it can
requestEnds(s) ==
  \/ \E m \in FetchErrorMessages : fetchRejected(s, m)
  \/ \E r \in Responses : responseNotOk(s, r)
  \/ \E r \in Responses : jsonRejected(s, r)
  \/ \E r \in Responses, res \in Results : resultReceived(s, r, res)

\* the program with an endpoint that settles every request it is sent
SpecFair == Spec /\ \A s \in Slots : WF_vars(requestEnds(s))

\* The slot is torn down: its component leaves the tree.  Nothing in App
\* unmounts a PersonaInterpreter; the step is the teardown the design
\* document speaks of.
teardown(s) ==
  /\ mounted[s]
  /\ mounted' = [mounted EXCEPT ![s] = FALSE]
  /\ UNCHANGED <<masterDreamText, slotDreamText, interpretation, isLoading, error, inflight>>

NextTeardown ==
  \/ Next
  \/ \E s \in Slots : teardown(s)

\* the program with slots that can be torn down
SpecTeardown == Init /\ [][NextTeardown]_vars

\* ------------------------------------------------------------------ claims
\* empty or made of whitespace only
IsBlank(str) == \A k \in 1..Len(str) : str[k] \in Whitespace

\* what slot s holds
SlotValues(s) ==
  [ interpretation |-> interpretation[s],
    isLoading      |-> isLoading[s],
    error          |-> error[s],
    inflight       |-> inflight[s] ]

\* C1: in every state in which a slot is Loading, its trigger operation
\* (getInterpretation), run in that state, changes nothing the slot holds and
\* issues no request.
C1_TriggerWhileLoadingIsNoOp ==
  \A s \in Slots : isLoading[s] => getInterpretationStart(s) = SlotValues(s)

\* C2: a trigger that runs while the shared input is empty or whitespace-only
\* issues no request on any slot and leaves the slot not loading, with the
\* error 'Please enter a dream to interpret.'
C2_BlankTriggerRejected ==
  [][ \A s \in Slots :
        (buttonClick(s) /\ IsBlank(masterDreamText)) =>
          /\ inflight' = inflight
          /\ error'[s] = Some(PleaseEnter)
          /\ ~isLoading'[s] ]_vars

\* a slot that had a Success text was triggered on whitespace-only input
C2_Witness ==
  \E s \in Slots :
    /\ IsBlank(masterDreamText) /\ masterDreamText # << >>
    /\ error[s] = Some(PleaseEnter)
    /\ ~isLoading[s]
    /\ inflight[s] = << >>

\* C3: every slot is in exactly one of Idle, Loading, Success(text) and
\* Error(message): never an interpretation text together with an error, and
\* never loading while holding an error or an interpretation text.
C3_ExactlyOneState ==
  \A s \in Slots :
    /\ ~(Truthy(interpretation[s]) /\ error[s] # Null)
    /\ isLoading[s] => (error[s] = Null /\ interpretation[s] = << >>)

\* the candidates array of a parsed result ([] when there is none)
CandidatesOf(result) ==
  IF result = Undefined THEN << >>
  ELSE IF result[1].candidates = Undefined THEN << >>
  ELSE result[1].candidates[1]

\* the non-empty texts found in the parts of a candidate's content
TextsOf(candidate) ==
  IF candidate.content = Undefined THEN {}
  ELSE IF candidate.content[1].parts = Undefined THEN {}
  ELSE LET parts == candidate.content[1].parts[1]
       IN  { parts[k].text : k \in {j \in 1..Len(parts) : parts[j].text # << >>} }

\* the usable texts of a parsed result, at any candidate position
UsableTexts(result) ==
  UNION { TextsOf(CandidatesOf(result)[k]) : k \in 1..Len(CandidatesOf(result)) }

\* some candidate of the parsed result was finished by a safety block
HasSafety(result) ==
  \E k \in 1..Len(CandidatesOf(result)) :
    CandidatesOf(result)[k].finishReason = <<"SAFETY">>

\* C4: whenever a slot has a request outstanding, every parsed result with a
\* usable text at some candidate position, with or without a safety finish
\* reason, settles the slot in Success with that text: not loading, no error,
\* interpretation one of the result's texts.
C4_UsableTextIsSuccess ==
  \A s \in Slots :
    inflight[s] # << >> =>
      \A res \in Results :
        UsableTexts(res) # {} =>
          LET after == settleSlot(s, classify(res))
          IN  /\ after.interpretation \in UsableTexts(res)
              /\ after.error = Null
              /\ ~after.isLoading

\* C5: whenever a slot has a request outstanding, every parsed result without
\* usable text and without safety finish reason settles the slot in Error with
\* the message 'The AI returned an invalid or empty response.'
C5_NoTextNoSafetyIsMalformed ==
  \A s \in Slots :
    inflight[s] # << >> =>
      \A res \in Results :
        (UsableTexts(res) = {} /\ ~HasSafety(res)) =>
          LET after == settleSlot(s, classify(res))
          IN  /\ after.error = Some(InvalidMessage)
              /\ after.interpretation = << >>
              /\ ~after.isLoading

\* C6: whenever a slot has a request outstanding, every parsed result without
\* usable text in which some candidate has a safety finish reason settles the
\* slot in Error with the rephrase-your-dream message.
C6_NoTextSafetyIsBlocked ==
  \A s \in Slots :
    inflight[s] # << >> =>
      \A res \in Results :
        (UsableTexts(res) = {} /\ HasSafety(res)) =>
          LET after == settleSlot(s, classify(res))
          IN  /\ after.error = Some(SafetyMessage)
              /\ after.interpretation = << >>
              /\ ~after.isLoading

\* the decimal digits of the status codes
DecimalDigits(status) ==
  CASE status = 200 -> <<"2", "0", "0">>
    [] status = 404 -> <<"4", "0", "4">>
    [] status = 500 -> <<"5", "0", "0">>

\* C7: a response that is not 2xx, with status c and status text t, leaves
\* the slot that issued the request with the error
\* 'API request failed with status c: t', not loading, its button enabled.
C7_TransportError ==
  [][ \A s \in Slots, r \in Responses :
        (r.status \notin 200..299 /\ responseNotOk(s, r)) =>
          /\ error'[s] = Some(<<"API request failed with status ">>
                               \o DecimalDigits(r.status) \o <<": ">> \o r.statusText)
          /\ ~isLoading'[s]
          /\ inflight'[s] = << >> ]_vars

\* the spec's scenario: HTTP 500 'Internal Server Error'
C7_Witness ==
  \E s \in Slots :
    /\ error[s] = Some(<<"API request failed with status ", "5", "0", "0", ": ",
                         "Internal Server Error">>)
    /\ ~isLoading[s]
    /\ inflight[s] = << >>

\* every way a request can end
Outcomes ==
  { classify(res) : res \in Results }
    \cup { Throw(m) : m \in FetchErrorMessages }
    \cup { Throw(statusMessage(r)) : r \in Responses }
    \cup { Throw(JsonErrorMessage) }

\* slot a is triggered or a request of slot a ends
SlotActs(a) ==
  \/ buttonClick(a)
  \/ \E o \in Outcomes, i \in 1..Len(inflight[a]) : settle(a, i, o)

\* C8: a trigger on slot A and any end of A's request leave every other
\* slot's interpretation, loading flag, error and outstanding requests as
\* they were.
C8_OtherSlotsUnchanged ==
  [][ \A a \in Slots :
        SlotActs(a) => \A b \in Slots \ {a} : SlotValues(b)' = SlotValues(b) ]_vars

\* every slot is Loading at the same time, each with its own request
C8_Witness ==
  \A s \in Slots : isLoading[s] /\ Len(inflight[s]) = 1

\* the prompt of persona s for the dream text str
PromptFor(s, str) ==
  personas[s] \o <<"\n\n---\n\nDREAM: \"">> \o str \o <<"\"">>

\* C9: a write to the shared input changes no outstanding request, and a
\* trigger that issues a request builds it from the shared input as it is at
\* that moment.
C9_SnapshotAtTrigger ==
  [][ /\ (\E s \in Slots, v \in Inputs : handleInputChange(s, v)) => inflight' = inflight
      /\ \A s \in Slots :
           (buttonClick(s) /\ inflight'[s] # inflight[s]) =>
             inflight'[s] = Append(inflight[s], PromptFor(s, masterDreamText)) ]_vars

\* a request is outstanding whose prompt holds an earlier dream text than the
\* shared input holds now
C9_Witness ==
  \E s \in Slots :
    /\ Len(inflight[s]) = 1
    /\ inflight[s][1] = PromptFor(s, <<"a">>)
    /\ masterDreamText = <<" ", "a", "\n">>

\* C10: a trigger accepted on non-blank shared input S issues one request
\* whose prompt is the persona's template, then the separator, then S between
\* quotes with S as typed, and leaves the slot loading.
C10_PromptExact ==
  [][ \A s \in Slots :
        (buttonClick(s) /\ ~IsBlank(masterDreamText)) =>
          /\ Len(inflight'[s]) = Len(inflight[s]) + 1
          /\ LET p == inflight'[s][Len(inflight'[s])]
                 n == Len(personas[s])
             IN  /\ SubSeq(p, 1, n) = personas[s]
                 /\ p[n + 1] = "\n\n---\n\nDREAM: \""
                 /\ SubSeq(p, n + 2, Len(p) - 1) = masterDreamText
                 /\ p[Len(p)] = "\""
          /\ isLoading'[s] ]_vars

\* a slot is loading on the prompt of ' a\n', whitespace kept
C10_Witness ==
  \E s \in Slots :
    /\ isLoading[s]
    /\ inflight[s] = << personas[s] \o <<"\n\n---\n\nDREAM: \"", " ", "a", "\n", "\"">> >>

\* C11: when a slot has been torn down with its request outstanding, no way
\* the request can end surfaces an error: nothing is handed to console.error.
C11_LateCompletionSilent ==
  \A s \in Slots :
    (~mounted[s] /\ inflight[s] # << >>) =>
      \A o \in Outcomes : consoleError(o) = Null

\* C12: a trigger on non-blank shared input, on a slot that holds a Success
\* text or an error of any kind, leaves the slot loading with one more request
\* and with neither text nor error; and no slot that is loading after a step
\* holds a text or an error.
C12_RetriggerClearsTerminal ==
  [][ /\ \A s \in Slots :
           ( /\ buttonClick(s)
             /\ ~IsBlank(masterDreamText)
             /\ (Truthy(interpretation[s]) \/ error[s] # Null) ) =>
             /\ isLoading'[s]
             /\ interpretation'[s] = << >>
             /\ error'[s] = Null
             /\ Len(inflight'[s]) = Len(inflight[s]) + 1
      /\ \A s \in Slots :
           isLoading'[s] => (interpretation'[s] = << >> /\ error'[s] = Null) ]_vars

\* a slot holds the safety error, its button is enabled and the shared input
\* is not blank: the next click on it is such a trigger
C12_Witness ==
  \E s \in Slots :
    /\ error[s] = Some(SafetyMessage)
    /\ ~isLoading[s]
    /\ ~IsBlank(masterDreamText)

\* C13: a write through any slot's textarea stores the value as given, blank
\* or not, and after every step every slot, loading or not, reads the one
\* shared value.
C13_SingleSharedValue ==
  [][ /\ \A s \in Slots, v \in Inputs :
           handleInputChange(s, v) => masterDreamText' = v
      /\ \A t \in Slots : slotDreamText'[t] = masterDreamText' ]_vars

\* a whitespace-only value was written while a slot was loading, and every
\* slot reads it
C13_Witness ==
  /\ masterDreamText = <<" ">>
  /\ \A t \in Slots : slotDreamText[t] = <<" ">>
  /\ \E s \in Slots : isLoading[s]

\* C14: a step issues a request of slot s exactly when it is a trigger
\* accepted on non-blank shared input, and then exactly one (so the requests
\* a slot has issued are as many as those triggers); and a slot that holds an
\* error and is not loading keeps everything it holds in every step that is
\* not a click on its own button.
C14_OneRequestPerTrigger ==
  [][ \A s \in Slots :
        /\ (buttonClick(s) /\ ~IsBlank(masterDreamText)) =>
             Len(inflight'[s]) = Len(inflight[s]) + 1
        /\ Len(inflight'[s]) > Len(inflight[s]) =>
             (buttonClick(s) /\ ~IsBlank(masterDreamText))
        /\ (error[s] # Null /\ ~isLoading[s] /\ ~buttonClick(s)) =>
             SlotValues(s)' = SlotValues(s) ]_vars

\* one slot rests in the transport error with nothing outstanding while
\* another has its one request outstanding
C14_Witness ==
  \E s, t \in Slots :
    /\ error[s] = Some(<<"API request failed with status ", "4", "0", "4", ": ", "Not Found">>)
    /\ ~isLoading[s] /\ inflight[s] = << >>
    /\ isLoading[t] /\ Len(inflight[t]) = 1

\* C15: a loading slot stops loading only in a step that ends its one
\* outstanding request, and every step that leaves its outstanding request
\* alone (a write, a trigger or a completion elsewhere) leaves all it holds
\* alone.
C15_LeavesLoadingOnlyByCompletion ==
  [][ \A s \in Slots :
        isLoading[s] =>
          /\ ~isLoading'[s] => (Len(inflight[s]) = 1 /\ inflight'[s] = << >>)
          /\ inflight'[s] = inflight[s] => SlotValues(s)' = SlotValues(s) ]_vars

\* a slot still loads on the prompt of 'a' after the shared input was emptied
\* and another slot's request ended with a text
C15_Witness ==
  \E s, t \in Slots :
    /\ isLoading[s] /\ inflight[s] = << PromptFor(s, <<"a">>) >>
    /\ masterDreamText = << >>
    /\ ~isLoading[t] /\ Truthy(interpretation[t])

\* C16: if every request sent is settled, a slot that is loading is later not
\* loading and holds a text or an error.
C16_LoadingEnds ==
  \A s \in Slots :
    isLoading[s] ~> (~isLoading[s] /\ (Truthy(interpretation[s]) \/ error[s] # Null))

\* a request ended with a body that is not JSON and the slot left Loading
C16_Witness ==
  \E s \in Slots :
    /\ error[s] = Some(JsonErrorMessage)
    /\ ~isLoading[s]
    /\ inflight[s] = << >>

\* C17: a write to the shared input leaves every slot's interpretation,
\* loading flag, error and outstanding requests as they were; what a slot
\* holds changes only in a click on its button or at the end of its request.
C17_WriteChangesNoSlot ==
  [][ /\ (\E s \in Slots, v \in Inputs : handleInputChange(s, v)) =>
           \A t \in Slots : SlotValues(t)' = SlotValues(t)
      /\ \A t \in Slots : SlotValues(t)' # SlotValues(t) => SlotActs(t) ]_vars

\* a slot still shows the input-required error after a dream was typed
C17_Witness ==
  \E s \in Slots :
    /\ error[s] = Some(PleaseEnter)
    /\ interpretation[s] = << >>
    /\ ~IsBlank(masterDreamText)

\* C18: every slot has at most one request outstanding and is loading
\* exactly when it has one.
C18_LoadingIffOutstanding ==
  \A s \in Slots :
    /\ Len(inflight[s]) <= 1
    /\ isLoading[s] <=> Len(inflight[s]) = 1

\* one slot loads with its one request, another has none after the request
\* it had ended without a message
C18_Witness ==
  \E s, t \in Slots :
    /\ isLoading[s] /\ Len(inflight[s]) = 1
    /\ ~isLoading[t] /\ inflight[t] = << >> /\ error[t] = Some(UnknownMessage)

\* C19: a trigger rejected for blank shared input leaves the loading flags,
\* the interpretation texts, the shared input, the outstanding requests and
\* the other slots' errors as they were.
C19_RejectedTriggerFrame ==
  [][ \A s \in Slots :
        (buttonClick(s) /\ IsBlank(masterDreamText)) =>
          /\ isLoading' = isLoading
          /\ interpretation' = interpretation
          /\ masterDreamText' = masterDreamText
          /\ inflight' = inflight
          /\ \A t \in Slots \ {s} : error'[t] = error[t] ]_vars

\* a slot shows the input-required error and still holds its earlier text
C19_Witness ==
  \E s \in Slots :
    /\ error[s] = Some(PleaseEnter)
    /\ Truthy(interpretation[s])
    /\ ~isLoading[s]

====
